---- MODULE Spec2Model ----
(***************************************************************************)
(* LayeredConfig (layeredconfig.py): a tree of configuration scopes built  *)
(* over an ordered list of sources, with attribute get, attribute set and  *)
(* write translated from the code.  The sources themselves (has, typed,    *)
(* get, typevalue, set, subsections, subsection, save) are not part of     *)
(* layeredconfig.py; they are modelled from their capability contract.     *)
(***************************************************************************)
EXTENDS Integers, Sequences, FiniteSets, TLC

VARIABLES
    supports,   \* supports[i]: source i has a subsections() method
    subsec,     \* subsec[id]: the subsection names source node id reports, in order
    cascade,    \* the cascade keyword argument of the root LayeredConfig
    node,       \* the source objects in memory: id -> fields and stored keys
    scopes,     \* the LayeredConfig objects: scope id -> fields
    status,     \* "new" before construction, "ok" after it, "failed" if it raised
    persisted,  \* what each loadable source node holds on its backing store
    saveCalls,  \* number of save() calls the last write made on each source object
    pre,        \* the source objects as they were before the last operation
    last        \* the last operation: its arguments and what it returned or raised

vars == <<supports, subsec, cascade, node, scopes, status, persisted, saveCalls, pre, last>>

\* Number of sources handed to the root LayeredConfig.
NSrc == 2

Srcs == 1..NSrc

\* Configuration parameter names and subsection names used as inputs.
Keys == {"k"}
Sections == {"a", "b", "c"}

Range(s) == {s[j] : j \in 1..Len(s)}

\* ------------------------------------------------------------------------
\* Identities.  A source object is <<i, path>>: lineage i (the i-th source
\* given to the root), nested under the subsection names in path.
NoNode == <<0, <<>>>>
NoScope == <<"_none_">>
NoKey == "_none_"
Root == <<>>

\* A value is a payload n with the object whose typing produced it (NoNode
\* for a raw, untyped string).
Val(ty, n) == [ty |-> ty, n |-> n]
NoVal == Val(NoNode, 0)
\* the raw value a fresh assignment stores
NewVal == Val(NoNode, 91)

NoEntry == [has |-> FALSE, typed |-> FALSE, val |-> NoVal]
EmptyKeys == [k \in Keys |-> NoEntry]

\* ------------------------------------------------------------------------
\* The source capability, as LayeredConfig calls it.

\* source.has(name)
Has(nd, src, name) == name \in DOMAIN nd[src].keys /\ nd[src].keys[name].has

\* source.typed(name)
Typed(nd, src, name) == name \in DOMAIN nd[src].keys /\ nd[src].keys[name].typed

\* source.get(name)
Get(nd, src, name) == nd[src].keys[name].val

\* typesource.typevalue(name, value): the payload, typed by typesource
TypeValue(nd, typesource, name, value) == Val(typesource, value.n)

\* source.set(name, value): stores the value, leaves dirty alone
SourceSet(nd, src, name, value) ==
    [nd EXCEPT ![src].keys[name].has = TRUE, ![src].keys[name].val = value]

\* hasattr(src, "subsections")
Supports(src) == supports[src[1]]

\* src.subsections(): an empty placeholder reports none
Subsections(src) == IF src \in DOMAIN subsec THEN subsec[src] ELSE <<>>

\* src.subsection(k)
Subsection(src, k) == <<src[1], Append(src[2], k)>>

\* ------------------------------------------------------------------------
\* LayeredConfig.__init__

RECURSIVE AppendNew(_, _)
\* for k in src.subsections(): if k not in sectionkeys: sectionkeys.append(k)
AppendNew(sectionkeys, ks) ==
    IF ks = <<>> THEN sectionkeys
    ELSE AppendNew(IF Head(ks) \in Range(sectionkeys) THEN sectionkeys
                   ELSE Append(sectionkeys, Head(ks)),
                   Tail(ks))

RECURSIVE CollectKeys(_, _, _)
\* for src in self._sources: try ... except AttributeError: pass
CollectKeys(sources, j, sectionkeys) ==
    IF j > Len(sources) THEN sectionkeys
    ELSE CollectKeys(sources, j + 1,
                     IF Supports(sources[j])
                     THEN AppendNew(sectionkeys, Subsections(sources[j]))
                     ELSE sectionkeys)

\* mutant: a name seen again is appended again
SectionKeysDup(sources) ==
    LET RECURSIVE Cat(_)
        Cat(j) == IF j > Len(sources) THEN <<>>
                  ELSE (IF Supports(sources[j]) THEN Subsections(sources[j]) ELSE <<>>)
                       \o Cat(j + 1)
    IN Cat(1)

\* 1. find all names
SectionKeys(sources) == CollectKeys(sources, 1, <<>>)

\* src.__class__(parent=src, identifier=src.identifier, writable=src.writable, ...)
Placeholder(nd, src) ==
    [identifier |-> nd[src].identifier,
     parent     |-> src,
     writable   |-> nd[src].writable,
     dirty      |-> FALSE,
     empty      |-> TRUE,
     keys       |-> EmptyKeys]

\* the identity of the object src.__class__(parent=src, ...) creates for name k
PlaceholderId(src, k) == <<src[1], Append(src[2], k)>>

\* the list s of step 2: one entry per source of the enclosing scope
ChildSources(sources, k) ==
    [j \in 1..Len(sources) |->
       IF k \in Range(Subsections(sources[j]))
       THEN Subsection(sources[j], k)
       ELSE PlaceholderId(sources[j], k)]

\* the objects step 2 creates for the sources that lack subsection k
NewPlaceholders(nd, sources, k) ==
    LET missing == {j \in 1..Len(sources) : k \notin Range(Subsections(sources[j]))}
    IN [id \in {PlaceholderId(sources[j], k) : j \in missing} |->
          Placeholder(nd, CHOOSE s \in Range(sources) : PlaceholderId(s, k) = id)]

\* line 99 calls src.subsections() outside the try block
Line99Raises(sources) == \E j \in 1..Len(sources) : ~Supports(sources[j])

RECURSIVE BuildScope(_, _, _, _, _)
RECURSIVE BuildChildren(_, _, _, _, _)

\* for k in sectionkeys: steps 2 and 3
BuildChildren(sources, self, sectionkeys, j, st) ==
    IF j > Len(sectionkeys) \/ ~st.ok THEN st
    ELSE IF Line99Raises(sources) THEN [st EXCEPT !.ok = FALSE]
    ELSE LET k   == sectionkeys[j]
             st1 == [st EXCEPT !.node = NewPlaceholders(st.node, sources, k) @@ @]
             st2 == BuildScope(ChildSources(sources, k), Append(self, k), self, k, st1)
         IN  BuildChildren(sources, self, sectionkeys, j + 1, st2)

\* LayeredConfig(*sources, cascade=...), registered under sectionkey in parent
BuildScope(sources, self, parent, sectionkey, st) ==
    LET sectionkeys == SectionKeys(sources)
        st1 == BuildChildren(sources, self, sectionkeys, 1, st)
        c   == [sources     |-> sources,
                subsections |-> [j \in 1..Len(sectionkeys) |->
                                   [key |-> sectionkeys[j],
                                    scope |-> Append(self, sectionkeys[j])]],
                cascade     |-> cascade,
                parent      |-> parent,
                sectionkey  |-> sectionkey]
    IN  [st1 EXCEPT !.scopes = (self :> c) @@ @]

RootSources == [i \in Srcs |-> <<i, Root>>]

\* the whole tree built from the root sources over the loaded source objects nd
BuildTree(nd) ==
    BuildScope(RootSources, Root, NoScope, NoKey,
               [ok |-> TRUE, scopes |-> <<>>, node |-> nd])

\* ------------------------------------------------------------------------
\* LayeredConfig.__getattribute__

\* name in self._subsections
SubsectionKeys(self) == {scopes[self].subsections[j].key : j \in 1..Len(scopes[self].subsections)}

\* self._subsections[name]
SubsectionOf(self, name) ==
    LET j == CHOOSE x \in 1..Len(scopes[self].subsections) : scopes[self].subsections[x].key = name
    IN  scopes[self].subsections[j].scope

\* mutant: the source's own parent chain is never climbed
ClimbOwnOnly(nd, casc, source, name) ==
    [found |-> Has(nd, source, name), source |-> source]

RECURSIVE Climb(_, _, _, _)
\* while not done: the walk from one source up its own parent chain
Climb(nd, casc, source, name) ==
    IF Has(nd, source, name) THEN [found |-> TRUE, source |-> source]
    ELSE IF casc /\ nd[source].parent # NoNode THEN Climb(nd, casc, nd[source].parent, name)
    ELSE [found |-> FALSE, source |-> source]

RECURSIVE ScanValue(_, _, _, _, _)
\* for source in reversed(self._sources): ... if found: break
ScanValue(nd, casc, sources, j, name) ==
    IF j = 0 THEN [found |-> FALSE, source |-> NoNode]
    ELSE LET r == Climb(nd, casc, sources[j], name)
         IN  IF r.found THEN r ELSE ScanValue(nd, casc, sources, j - 1, name)

RECURSIVE ScanValueForward(_, _, _, _, _)
ScanValueForward(nd, casc, sources, j, name) ==
    IF j > Len(sources) THEN [found |-> FALSE, source |-> NoNode]
    ELSE LET r == Climb(nd, casc, sources[j], name)
         IN  IF r.found THEN r ELSE ScanValueForward(nd, casc, sources, j + 1, name)

\* mutant: the sources are scanned in the order given, not reversed
FindValueForward(nd, self, name) ==
    ScanValueForward(nd, scopes[self].cascade, scopes[self].sources, 1, name)

\* find the appropriate value in the highest-priority source
FindValue(nd, self, name) ==
    ScanValue(nd, scopes[self].cascade, scopes[self].sources, Len(scopes[self].sources), name)

RECURSIVE ScanTyped(_, _, _, _)
\* for typesource in reversed(this._sources): if typesource.typed(name): break
\* (when nothing breaks the loop, typesource is the last one visited)
ScanTyped(nd, sources, j, name) ==
    IF Typed(nd, sources[j], name) THEN [done |-> TRUE, typesource |-> sources[j]]
    ELSE IF j = 1 THEN [done |-> FALSE, typesource |-> sources[j]]
    ELSE ScanTyped(nd, sources, j - 1, name)

RECURSIVE ClimbTyped(_, _, _, _)
\* while not done: this = this._parent
ClimbTyped(nd, casc, this, name) ==
    LET r == ScanTyped(nd, scopes[this].sources, Len(scopes[this].sources), name)
    IN  IF ~r.done /\ casc /\ scopes[this].parent # NoScope
        THEN ClimbTyped(nd, casc, scopes[this].parent, name)
        ELSE r.typesource

\* mutant: the parent scopes are never asked for a typesource
FindTypeSourceLocal(nd, self, name) == ClimbTyped(nd, FALSE, self, name)

\* we need to find a typesource for this value
FindTypeSource(nd, self, name) == ClimbTyped(nd, scopes[self].cascade, self, name)

\* if found: the value returned for the value source
Resolve(nd, self, source, name) ==
    IF Typed(nd, source, name) THEN Get(nd, source, name)
    ELSE LET typesource == FindTypeSource(nd, self, name)
         IN  IF Typed(nd, typesource, name)
             THEN TypeValue(nd, typesource, name, Get(nd, source, name))
             ELSE Get(nd, source, name)

\* mutant: the cascade flag is not consulted
DelegatesAlways(self) == scopes[self].parent # NoScope

\* else: if self._cascade and self._parent
Delegates(self) == scopes[self].cascade /\ scopes[self].parent # NoScope

Returned(kind, value, target) == [kind |-> kind, result |-> value, target |-> target]

RECURSIVE GetAttribute(_, _, _)
GetAttribute(nd, self, name) ==
    IF name \in SubsectionKeys(self) THEN Returned("scope", NoVal, SubsectionOf(self, name))
    ELSE LET f == FindValue(nd, self, name)
         IN  IF f.found THEN Returned("value", Resolve(nd, self, f.source, name), NoScope)
             ELSE IF Delegates(self) THEN GetAttribute(nd, scopes[self].parent, name)
             ELSE Returned("NotFound", NoVal, NoScope)

\* ------------------------------------------------------------------------
\* LayeredConfig.__setattr__

RECURSIVE ScanWritable(_, _, _)
\* for writesource in reversed(self._sources): if writesource.writable: break
ScanWritable(nd, sources, j) ==
    IF j = 0 THEN NoNode
    ELSE IF nd[sources[j]].writable THEN sources[j]
    ELSE ScanWritable(nd, sources, j - 1)

\* 1. the highest-priority writable source
WriteSource(nd, self) == ScanWritable(nd, scopes[self].sources, Len(scopes[self].sources))

\* mutant: only the written source is marked, not its parent chain
MarkDirtyLocal(nd, writesource) == [nd EXCEPT ![writesource].dirty = TRUE]

RECURSIVE MarkDirty(_, _)
\* writesource.dirty = True; while writesource.parent: ...
MarkDirty(nd, writesource) ==
    LET nd1 == [nd EXCEPT ![writesource].dirty = TRUE]
    IN  IF nd[writesource].parent # NoNode THEN MarkDirty(nd1, nd[writesource].parent)
        ELSE nd1

RECURSIVE ScanKnown(_, _, _, _)
\* for source in reversed(self._sources): if source.has(name) or source.typed(name): break
ScanKnown(nd, sources, j, name) ==
    IF j = 0 THEN NoNode
    ELSE IF Has(nd, sources[j], name) \/ Typed(nd, sources[j], name) THEN sources[j]
    ELSE ScanKnown(nd, sources, j - 1, name)

RECURSIVE ScanTypedOnly(_, _, _, _)
ScanTypedOnly(nd, sources, j, name) ==
    IF j = 0 THEN NoNode
    ELSE IF Typed(nd, sources[j], name) THEN sources[j]
    ELSE ScanTypedOnly(nd, sources, j - 1, name)

\* mutant: only typing info counts, a stored value does not
KnownSourceTyped(nd, self, name) ==
    ScanTypedOnly(nd, scopes[self].sources, Len(scopes[self].sources), name)

\* 2. the highest-priority source that has this value or typing info for it
KnownSource(nd, self, name) == ScanKnown(nd, scopes[self].sources, Len(scopes[self].sources), name)

\* the first half of __setattr__
WriteStep(nd, self, name, value) ==
    LET writesource == WriteSource(nd, self)
    IN  IF writesource # NoNode
        THEN MarkDirty(SourceSet(nd, writesource, name, value), writesource)
        ELSE nd

RECURSIVE SetAttribute(_, _, _, _)
SetAttribute(nd, self, name, value) ==
    LET nd1    == WriteStep(nd, self, name, value)
        source == KnownSource(nd1, self, name)
    IN  IF source # NoNode
        THEN [node |-> SourceSet(nd1, source, name, value), kind |-> "ok"]
        ELSE IF Delegates(self) THEN SetAttribute(nd1, scopes[self].parent, name, value)
        ELSE [node |-> nd1, kind |-> "UnknownKey"]

\* ------------------------------------------------------------------------
\* LayeredConfig.write

RECURSIVE RootOf(_)
\* while root._parent: root = root._parent
RootOf(config) ==
    IF scopes[config].parent # NoScope THEN RootOf(scopes[config].parent) ELSE config

\* mutant: the dirty flag is not consulted
ShouldSaveWritable(nd, source) == nd[source].writable

\* if source.writable and source.dirty
ShouldSave(nd, source) == nd[source].writable /\ nd[source].dirty

\* the number of source.save() calls write(config) makes on the object id
SaveCount(nd, config, id) ==
    LET sources == scopes[RootOf(config)].sources
    IN  Cardinality({j \in 1..Len(sources) : sources[j] = id /\ ShouldSave(nd, sources[j])})

\* source.save(): one physical save stores the source with the nested
\* subsections it reports itself
IsPrefix(p, q) == Len(p) <= Len(q) /\ SubSeq(q, 1, Len(p)) = p

Saved(nd, store, config) ==
    [id \in DOMAIN store |->
       IF \E s \in DOMAIN nd : SaveCount(nd, config, s) > 0 /\ s[1] = id[1] /\ IsPrefix(s[2], id[2])
       THEN nd[id].keys ELSE store[id]]

\* ------------------------------------------------------------------------
\* Source inputs.  A shape is the ordered subsection names of a source's
\* root; with deep, its subsection "a" has a subsection "b" of its own; with
\* linked, the source's subsection objects carry the parent back-reference.

SeqsUpTo2(S) == {<<>>} \cup {<<x>> : x \in S}
                 \cup {<<p[1], p[2]>> : p \in {q \in S \X S : q[1] # q[2]}}

ShapePaths(sh) ==
    {Root} \cup {<<x>> : x \in Range(sh.seq)}
           \cup (IF sh.deep THEN {<<"a", "b">>} ELSE {})

ShapeSubs(sh, p) ==
    IF p = Root THEN sh.seq
    ELSE IF p = <<"a">> /\ sh.deep THEN <<"b">>
    ELSE <<>>

TreeShapes ==
    {sh \in [seq : SeqsUpTo2(Sections), deep : BOOLEAN, linked : {TRUE}] :
       sh.deep => "a" \in Range(sh.seq)}

NoShape == [seq |-> <<>>, deep |-> FALSE, linked |-> TRUE]

RealIds(shape) == UNION {{<<i, p>> : p \in ShapePaths(shape[i])} : i \in Srcs}

\* what a source node holds for a key when it is loaded
KeyStates == {"none", "raw", "typed", "typeonly"}

Entry(id, ks) ==
    [has   |-> ks \in {"raw", "typed"},
     typed |-> ks \in {"typed", "typeonly"},
     val   |-> IF ks = "raw" THEN Val(NoNode, 10 * id[1] + Len(id[2]))
               ELSE IF ks = "typed" THEN Val(id, 10 * id[1] + Len(id[2]))
               ELSE NoVal]

\* a loaded source object
Enclosing(id) == <<id[1], SubSeq(id[2], 1, Len(id[2]) - 1)>>

Loaded(id, parent, wr, keys) ==
    [identifier |-> id[1],
     parent     |-> parent,
     writable   |-> wr,
     dirty      |-> FALSE,
     empty      |-> FALSE,
     keys       |-> keys]

NoSet == [scope |-> NoScope, name |-> NoKey, value |-> NoVal, kind |-> "none",
          written |-> NoScope]

NoOp == [op |-> "none", scope |-> NoScope, name |-> NoKey,
         kind |-> "none", result |-> NoVal, target |-> NoScope, set |-> NoSet]

\* ------------------------------------------------------------------------
\* The state before LayeredConfig(*sources, cascade=...) is called: the
\* sources are loaded, no scope exists yet.

Sources(shapes, sups, cascades, wrs, states, tied) ==
    /\ supports \in sups
    /\ cascade \in cascades
    /\ \E shape \in [Srcs -> shapes] : \E wr \in wrs :
         /\ \A i \in Srcs : ~supports[i] => shape[i] = NoShape
         /\ tied => \A i \in Srcs : wr[i] \/ shape[i].linked
         /\ subsec = [id \in RealIds(shape) |-> ShapeSubs(shape[id[1]], id[2])]
         /\ \E ks \in [DOMAIN subsec -> states] :
              node = [id \in DOMAIN subsec |->
                        Loaded(id,
                               IF id[2] # Root /\ shape[id[1]].linked
                               THEN Enclosing(id) ELSE NoNode,
                               wr[id[1]],
                               [k \in Keys |-> Entry(id, ks[id])])]
    /\ scopes = <<>>
    /\ status = "new"
    /\ persisted = [id \in DOMAIN node |-> node[id].keys]
    /\ saveCalls = [id \in DOMAIN node |-> 0]
    /\ pre = node
    /\ last = NoOp

\* LayeredConfig(*sources, cascade=cascade)
Construct ==
    /\ status = "new"
    /\ LET b == BuildTree(node)
       IN  /\ status' = IF b.ok THEN "ok" ELSE "failed"
           /\ scopes' = IF b.ok THEN b.scopes ELSE <<>>
           /\ node' = IF b.ok THEN b.node ELSE node
    /\ saveCalls' = [id \in DOMAIN node' |-> 0]
    /\ pre' = node
    /\ last' = [NoOp EXCEPT !.op = "init"]
    /\ UNCHANGED <<supports, subsec, cascade, persisted>>

\* Sources of any shape, some without subsections().
InitTree ==
    Sources(TreeShapes, [Srcs -> BOOLEAN], {FALSE}, [Srcs -> BOOLEAN], {"none"}, FALSE)

NextTree == Construct

SpecTree == InitTree /\ [][NextTree]_vars

\* ------------------------------------------------------------------------
\* Sources that all support subsections; each has the subsection "a" or
\* lacks it.

PlainShapes ==
    {NoShape} \cup {[seq |-> <<"a">>, deep |-> FALSE, linked |-> l] : l \in BOOLEAN}

\* config.name
GetAttr(self, name) ==
    /\ status = "ok"
    /\ last.op \in {"init", "reload"}
    /\ LET r == GetAttribute(node, self, name)
       IN  last' = [op |-> "get", scope |-> self, name |-> name, kind |-> r.kind,
                    result |-> r.result, target |-> r.target, set |-> last.set]
    /\ pre' = node
    /\ saveCalls' = [id \in DOMAIN node |-> 0]
    /\ UNCHANGED <<supports, subsec, cascade, node, scopes, status, persisted>>

\* config.name = value
SetAttr(self, name, value) ==
    /\ status = "ok"
    /\ last.op = "init"
    /\ LET r == SetAttribute(node, self, name, value)
       IN  /\ node' = r.node
           /\ last' = [NoOp EXCEPT !.op = "set", !.scope = self, !.name = name, !.kind = r.kind,
                         !.set = [scope |-> self, name |-> name, value |-> value,
                                  kind |-> r.kind, written |-> NoScope]]
    /\ pre' = node
    /\ saveCalls' = [id \in DOMAIN node |-> 0]
    /\ UNCHANGED <<supports, subsec, cascade, scopes, status, persisted>>

\* LayeredConfig.write(config)
Write(config) ==
    /\ status = "ok"
    /\ last.op \in {"init", "set"}
    /\ saveCalls' = [id \in DOMAIN node |-> SaveCount(node, config, id)]
    /\ persisted' = Saved(node, persisted, config)
    /\ last' = [NoOp EXCEPT !.op = "write", !.scope = config,
                             !.set = [last.set EXCEPT !.written = config]]
    /\ pre' = node
    /\ UNCHANGED <<supports, subsec, cascade, node, scopes, status>>

\* the sources are loaded again from their stores and a fresh tree is built
Reload ==
    /\ status = "ok"
    /\ last.op = "write"
    /\ last.set.kind = "ok"
    /\ last.set.written = last.set.scope
    /\ LET nd == [id \in DOMAIN persisted |->
                    Loaded(id, node[id].parent, node[id].writable, persisted[id])]
           b  == BuildTree(nd)
       IN  /\ node' = b.node
           /\ scopes' = b.scopes
    /\ saveCalls' = [id \in DOMAIN node' |-> 0]
    /\ last' = [NoOp EXCEPT !.op = "reload", !.set = last.set]
    /\ pre' = node
    /\ UNCHANGED <<supports, subsec, cascade, status, persisted>>

Names == Keys \cup {"a"}

InitRead ==
    Sources(PlainShapes, {[i \in Srcs |-> TRUE]}, BOOLEAN, {[i \in Srcs |-> TRUE]},
            KeyStates, FALSE)

NextRead ==
    \/ Construct
    \/ \E self \in DOMAIN scopes : \E name \in Names : GetAttr(self, name)

SpecRead == InitRead /\ [][NextRead]_vars

\* Only a writable source is tried with unlinked subsections here: the link
\* of a source that is never written to plays no part in a write.
InitWrite ==
    Sources(PlainShapes, {[i \in Srcs |-> TRUE]}, BOOLEAN, [Srcs -> BOOLEAN],
            {"none", "raw", "typeonly"}, TRUE)

NextWrite ==
    \/ Construct
    \/ \E self \in DOMAIN scopes : \E name \in Keys : SetAttr(self, name, NewVal)
    \/ \E config \in DOMAIN scopes : Write(config)
    \/ Reload
    \/ \E name \in Keys : last.op = "reload" /\ GetAttr(last.set.scope, name)

SpecWrite == InitWrite /\ [][NextWrite]_vars

\* ========================================================================
\* Properties of construction (SpecTree)

Built == status = "ok"

Max(S) == CHOOSE x \in S : \A y \in S : y <= x
Min(S) == CHOOSE x \in S : \A y \in S : x <= y

\* the subsection names a scope registered, in registration order
KeysOf(self) == [j \in 1..Len(scopes[self].subsections) |-> scopes[self].subsections[j].key]

\* where name x is first seen among the sources of a scope: <<source position, place>>
FirstSeen(self, x) ==
    LET srcs == scopes[self].sources
        j == Min({i \in 1..Len(srcs) : x \in Range(Subsections(srcs[i]))})
        l == Min({m \in 1..Len(Subsections(srcs[j])) : Subsections(srcs[j])[m] = x})
    IN  <<j, l>>

Before(p, q) == p[1] < q[1] \/ (p[1] = q[1] /\ p[2] < q[2])

UnionInOrder(self) ==
    LET ks == KeysOf(self)
        srcs == scopes[self].sources
    IN  /\ Range(ks) = UNION {Range(Subsections(srcs[i])) : i \in 1..Len(srcs)}
        /\ Cardinality(Range(ks)) = Len(ks)
        /\ \A m, n \in 1..Len(ks) :
             m < n => Before(FirstSeen(self, ks[m]), FirstSeen(self, ks[n]))

Paired(self, j) ==
    LET k == scopes[self].subsections[j].key
        c == scopes[self].subsections[j].scope
    IN  /\ c \in DOMAIN scopes
        /\ Len(scopes[c].sources) = Len(scopes[self].sources)
        /\ \A i \in 1..Len(scopes[self].sources) :
             LET src == scopes[self].sources[i]
                 sub == scopes[c].sources[i]
             IN  IF k \in Range(Subsections(src))
                 THEN sub = Subsection(src, k) /\ ~node[sub].empty
                 ELSE /\ node[sub].empty
                      /\ node[sub].keys = EmptyKeys
                      /\ node[sub].parent = src
                      /\ node[sub].identifier = node[src].identifier
                      /\ node[sub].writable = node[src].writable

\* C6: after construction every scope's subsections are the union of its
\* sources' subsection names in first-seen order, every scope has as many
\* sources as the root, and position i of a child holds source i's own
\* subsection or an empty placeholder whose parent is source i, with source
\* i's identifier and writable flag.
C6_UnionAndPairing ==
    Built =>
      \A self \in DOMAIN scopes :
         /\ UnionInOrder(self)
         /\ Len(scopes[self].sources) = NSrc
         /\ \A j \in 1..Len(scopes[self].subsections) : Paired(self, j)

\* S1 {a, b}, S2 {b, c} gives a, b, c, with a placeholder for S2's missing a
C6_Witness ==
    /\ Built
    /\ subsec[<<1, Root>>] = <<"a", "b">>
    /\ subsec[<<2, Root>>] = <<"b", "c">>
    /\ KeysOf(Root) = <<"a", "b", "c">>
    /\ node[scopes[<<"a">>].sources[2]].empty
    /\ ~node[scopes[<<"a">>].sources[1]].empty

\* C10: construction over a source without subsection support succeeds, also
\* when another source has subsections, each child scope then holding one
\* source per original source.
C10_MissingSupportAbsorbed ==
    (status # "new" /\ \E i \in Srcs : ~supports[i]) =>
       /\ status = "ok"
       /\ \A self \in DOMAIN scopes : Len(scopes[self].sources) = NSrc

\* ========================================================================
\* Properties of attribute get (SpecRead)

SourcesOf(self) == scopes[self].sources
Top(self) == SourcesOf(self)[Len(SourcesOf(self))]

\* the last operation was config.k on some scope
GotKey(k) == status = "ok" /\ last.op = "get" /\ last.name = k

\* the positions of the scope's sources that hold name at the scope's own level
OwnHolders(nd, self, name) ==
    {j \in 1..Len(SourcesOf(self)) : Has(nd, SourcesOf(self)[j], name)}

RECURSIVE UpChain(_, _)
\* a source object with the objects above it on its parent chain
UpChain(nd, src) ==
    {src} \cup (IF nd[src].parent # NoNode THEN UpChain(nd, nd[src].parent) ELSE {})

Reach(nd, self, src) == IF scopes[self].cascade THEN UpChain(nd, src) ELSE {src}

Holders(nd, self, j, name) ==
    {s \in Reach(nd, self, SourcesOf(self)[j]) : Has(nd, s, name)}

Finders(nd, self, name) ==
    {j \in 1..Len(SourcesOf(self)) : Holders(nd, self, j, name) # {}}

Nearest(S) == CHOOSE s \in S : \A t \in S : Len(t[2]) <= Len(s[2])

\* the value source: for the highest-priority source that finds name at its
\* own level or (cascade) on its own parent chain, the nearest level holding it
ValueSourceOf(nd, self, name) == Nearest(Holders(nd, self, Max(Finders(nd, self, name)), name))

Prefixes(self) == {SubSeq(self, 1, n) : n \in 0..Len(self)}

ScopeChain(self) == IF scopes[self].cascade THEN Prefixes(self) ELSE {self}

TypedAt(nd, t, name) == {j \in 1..Len(SourcesOf(t)) : Typed(nd, SourcesOf(t)[j], name)}

TypeScopes(nd, self, name) == {t \in ScopeChain(self) : TypedAt(nd, t, name) # {}}

NearestScope(S) == CHOOSE t \in S : \A u \in S : Len(u) <= Len(t)

\* the highest-priority typed source of the nearest scope that has one
TypeSourceOf(nd, self, name) ==
    LET t == NearestScope(TypeScopes(nd, self, name))
    IN  SourcesOf(t)[Max(TypedAt(nd, t, name))]

\* an untyped value source's value after typed recovery
Recovered(nd, self, vs, name) ==
    IF TypeScopes(nd, self, name) = {} THEN Get(nd, vs, name)
    ELSE TypeValue(nd, TypeSourceOf(nd, self, name), name, Get(nd, vs, name))

EverySourceHas(self, k) == \A j \in 1..Len(SourcesOf(self)) : Has(node, SourcesOf(self)[j], k)

\* C1 as stated: when every source of the scope has k at the scope's own
\* level, get returns the value the last source holds.
C1_ReturnsLastSourceValue ==
    \A k \in Keys :
       (GotKey(k) /\ EverySourceHas(last.scope, k)) =>
          /\ last.kind = "value"
          /\ last.result = Get(node, Top(last.scope), k)

\* C1 amended: when every source of the scope has k at the scope's own level,
\* get returns the last source's value: as held when the last source is typed
\* for k or no type source exists, otherwise as coerced by the type source.
C1_LastSourceWins ==
    \A k \in Keys :
       (GotKey(k) /\ EverySourceHas(last.scope, k)) =>
          /\ last.kind = "value"
          /\ last.result = IF Typed(node, Top(last.scope), k)
                           THEN Get(node, Top(last.scope), k)
                           ELSE Recovered(node, last.scope, Top(last.scope), k)

C1_Witness ==
    \E k \in Keys :
       /\ GotKey(k) /\ EverySourceHas(last.scope, k)
       /\ last.result # Get(node, Top(last.scope), k)
       /\ last.result.n = Get(node, Top(last.scope), k).n
       /\ last.scope # Root

\* C2: when the value source is untyped for k, get returns the typed value
\* the type source makes of the value source's raw value, the type source
\* being the highest-priority typed source of the nearest scope that has one
\* (the scope, or with cascade its closest ancestor); the raw value is
\* returned unchanged only when no source in that climb is typed for k.
C2_TypedRecovery ==
    \A k \in Keys :
       (/\ GotKey(k)
        /\ Finders(node, last.scope, k) # {}
        /\ ~Typed(node, ValueSourceOf(node, last.scope, k), k)) =>
          /\ last.kind = "value"
          /\ last.result = Recovered(node, last.scope, ValueSourceOf(node, last.scope, k), k)
          /\ (last.result = Get(node, ValueSourceOf(node, last.scope, k), k)
                <=> TypeScopes(node, last.scope, k) = {})

\* S1 types k, the higher-priority S2 holds it raw; the type source sits in
\* the parent scope
C2_Witness ==
    \E k \in Keys :
       /\ GotKey(k)
       /\ last.scope # Root
       /\ Finders(node, last.scope, k) # {}
       /\ ~Typed(node, ValueSourceOf(node, last.scope, k), k)
       /\ ValueSourceOf(node, last.scope, k)[1] = 2
       /\ TypeScopes(node, last.scope, k) = {Root}
       /\ last.result = Val(<<1, Root>>, Get(node, ValueSourceOf(node, last.scope, k), k).n)

IsChild(self) == self # Root

ParentOf(self) == scopes[self].parent

Linked(nd, src) == nd[src].parent # NoNode

\* a child scope none of whose own sources has k at the child's level
ChildMisses(self, k) == IsChild(self) /\ OwnHolders(node, self, k) = {}

Uniform(self) ==
    \/ \A j \in 1..Len(SourcesOf(self)) : Linked(node, SourcesOf(self)[j])
    \/ \A j \in 1..Len(SourcesOf(self)) : ~Linked(node, SourcesOf(self)[j])

SetKey(k) == status = "ok" /\ last.op = "set" /\ last.name = k

WritableAt(nd, self) == {j \in 1..Len(SourcesOf(self)) : nd[SourcesOf(self)[j]].writable}

\* W: the highest-priority writable source of the scope
WOf(nd, self) == SourcesOf(self)[Max(WritableAt(nd, self))]

\* D: the highest-priority source of the scope that held k
DOf(nd, self, k) == SourcesOf(self)[Max(OwnHolders(nd, self, k))]

Stores(nd, src, k, v) == Has(nd, src, k) /\ Get(nd, src, k) = v

\* C4: when the highest-priority writable source W differs from the source D
\* that defined k before the call, after the set both W and D store v, W and
\* every source on W's parent chain are dirty, and no other dirty flag
\* changed; for either relative priority of W and D.
C4_BothSourcesUpdated ==
    \A k \in Keys :
       (/\ SetKey(k)
        /\ WritableAt(pre, last.scope) # {} /\ OwnHolders(pre, last.scope, k) # {}
        /\ WOf(pre, last.scope) # DOf(pre, last.scope, k)) =>
          /\ Stores(node, WOf(pre, last.scope), k, last.set.value)
          /\ Stores(node, DOf(pre, last.scope, k), k, last.set.value)
          /\ \A s \in UpChain(pre, WOf(pre, last.scope)) : node[s].dirty
          /\ \A s \in DOMAIN node \ UpChain(pre, WOf(pre, last.scope)) :
                node[s].dirty = pre[s].dirty

\* before the call no source of the scope has k or is typed for k
Unknown(self, k) ==
    \A j \in 1..Len(SourcesOf(self)) :
       ~Has(pre, SourcesOf(self)[j], k) /\ ~Typed(pre, SourcesOf(self)[j], k)

NoTarget(self) == ~cascade \/ self = Root

DelegatedToParent(self, k) ==
    /\ node = SetAttribute(pre, ParentOf(self), k, last.set.value).node
    /\ last.kind = SetAttribute(pre, ParentOf(self), k, last.set.value).kind

C7_WriteSelectivity ==
    (status = "ok" /\ last.op = "write") =>
       /\ \A id \in DOMAIN node :
             saveCalls[id] = IF /\ id \in Range(SourcesOf(Root))
                                /\ pre[id].writable /\ pre[id].dirty
                             THEN 1 ELSE 0
       /\ node = pre

\* write on a subsection: one root source saved, another writable one clean,
\* and the dirty subsection-level source not saved itself
C7_Witness ==
    /\ status = "ok" /\ last.op = "write" /\ last.scope # Root
    /\ \E id \in Range(SourcesOf(Root)) : saveCalls[id] = 1
    /\ \E id \in Range(SourcesOf(Root)) :
          node[id].writable /\ ~node[id].dirty /\ saveCalls[id] = 0
    /\ \E id \in DOMAIN node : id[2] # Root /\ node[id].dirty /\ saveCalls[id] = 0

\* a set of k that succeeded on a scope, write on that scope, a reload, and
\* then config.k on the corresponding scope of the fresh tree
RoundTrip(k) ==
    /\ status = "ok" /\ last.op = "get" /\ last.name = k
    /\ last.set.kind = "ok" /\ last.set.name = k
    /\ last.set.written = last.set.scope
    /\ last.scope = last.set.scope
    /\ WritableAt(node, last.scope) # {}

\* C5 as stated: after set, write and reload, get returns v.
C5_RoundTripReturnsValue ==
    \A k \in Keys :
       RoundTrip(k) => last.kind = "value" /\ last.result = last.set.value

\* W is a subsection its source really has, linked up to the root source
Rooted(src) == ~node[src].empty /\ <<src[1], Root>> \in UpChain(node, src)

\* no source of higher priority than W finds k
Unshadowed(self, k) ==
    \A j \in 1..Len(SourcesOf(self)) :
       j > Max(WritableAt(node, self)) => Holders(node, self, j, k) = {}

\* C5 amended: the reloaded W holds v, and get returns v (coerced by the type
\* source when W is untyped for k and one exists), provided W is no empty
\* placeholder and is linked to its root source through the parent chain, and
\* no source of higher priority than W has k at the scope's level or, with
\* cascade, on its parent chain.
C5_RoundTripWhenPersisted ==
    \A k \in Keys :
       (RoundTrip(k) /\ Rooted(WOf(node, last.scope)) /\ Unshadowed(last.scope, k)) =>
          /\ Stores(node, WOf(node, last.scope), k, last.set.value)
          /\ last.kind = "value"
          /\ last.result = IF Typed(node, WOf(node, last.scope), k)
                           THEN last.set.value
                           ELSE Recovered(node, last.scope, WOf(node, last.scope), k)
          /\ last.result.n = last.set.value.n

C5_Witness ==
    \E k \in Keys :
       /\ RoundTrip(k) /\ Rooted(WOf(node, last.scope)) /\ Unshadowed(last.scope, k)
       /\ last.scope # Root
       /\ WOf(node, last.scope)[1] = 2
       /\ Has(node, <<1, last.scope>>, k)
       /\ last.result = last.set.value

====
